---- MODULE Spec2Model ----
(***************************************************************************)
(* Model of the reconnect-capable socket.io chess server                   *)
(* (src/unnamed/part_000, lines 464-752).                                  *)
(*                                                                         *)
(* State: the room registry `rooms` (roomId -> room object), the room      *)
(* objects themselves (`heap`), Node's timer table (`intervals` for        *)
(* setInterval, `timeouts` for setTimeout), the per-connection fields the  *)
(* handlers keep on the socket object (`sockets`), the uuid source         *)
(* (`nextPid`) and the wall clock (`now`, in milliseconds).  A handler is   *)
(* an operator from the server state to the new server state and the       *)
(* events it emits; the action of the handler commits the new state.       *)
(* `illegal` counts the illegal moves sent, and three history variables    *)
(* record what the properties refer to: `epochClock` (the clocks when the  *)
(* current turn epoch began), `away` (the game state when a seat           *)
(* disconnected) and `timedOut` (the seats of rooms that ended because a  *)
(* tick brought a clock to 0).                                             *)
(***************************************************************************)
EXTENDS Integers, Sequences, FiniteSets, TLC

VARIABLES now, rooms, heap, intervals, timeouts, sockets, nextPid, illegal,
          epochClock, away, timedOut

vars == <<now, rooms, heap, intervals, timeouts, sockets, nextPid, illegal,
          epochClock, away, timedOut>>

(* ------------------------------ bounds --------------------------------- *)
NumSockets  == 2        \* connections open at the same time
NumRoomIds  == 1        \* distinct room ids clients use
MaxPids     == 3        \* uuids handed out in a run
MaxPly      == 2        \* half-moves applied in one game
MaxTimeouts == 1        \* pending setTimeout callbacks
MaxIllegal  == 1        \* illegal moves the clients send in a run
MaxSteps    == 1        \* seconds of the run during which clients are active

(* -------------------------- program constants -------------------------- *)
DefaultSeconds == 300   \* makeRoom default / `Number(desiredTime) || 300`
TickMs         == 1000  \* setInterval period
MsPerSec       == 1000  \* divisor of elapsedMs
ClearDelayMs   == 1000 * 30   \* setTimeout(() => clearRoom(roomId), 1000 * 30)

Quantum == MsPerSec            \* granularity at which the wall clock is observed
T0      == MsPerSec            \* Date.now() when the server starts
MaxTime == T0 + MaxSteps * Quantum   \* end of the period of client activity

SocketIds == 1..NumSockets
RoomIds   == 1..NumRoomIds
ObjIds    == 1..(NumRoomIds + 1)
Handles   == 1..(NumRoomIds + 1)
Pids      == 1..MaxPids

Null    == 0            \* JS null / undefined for ids, handles and timestamps
NoObj   == [absent |-> TRUE]
Colors  == {"white", "black"}

\* values a client may send as desiredTime
DesiredTimes == { [kind |-> "undefined"], [kind |-> "string"],
                  [kind |-> "number", val |-> 0],
                  [kind |-> "number", val |-> 0 - 1],
                  [kind |-> "number", val |-> 1],
                  [kind |-> "number", val |-> 300] }

\* move payloads, as the rule engine classifies them in a position
MovePayloads == {"quiet", "mate", "bad"}

(* ----------------------- rule engine (chess.js) ------------------------ *)
\* A Chess instance is the sequence of moves applied to it.
NewChess == << >>

ChessTurn(chess) == IF Len(chess) % 2 = 0 THEN "w" ELSE "b"

GameOver(chess) == Len(chess) > 0 /\ chess[Len(chess)] = "mate"

\* chess.move(): TRUE iff the engine applies the move (returns a move object)
ChessLegal(chess, m) == m /= "bad" /\ ~GameOver(chess)

\* variant: the move is applied without asking whether it is legal
ChessMove_unchecked(chess, m) == Append(chess, m)

ChessMove(chess, m) == IF ChessLegal(chess, m) THEN Append(chess, m) ELSE chess

\* room.chess.turn() === 'w' ? 'white' : 'black'
TurnColor(chess) == IF ChessTurn(chess) = "w" THEN "white" ELSE "black"

Other(color) == IF color = "white" THEN "black" ELSE "white"

Max(a, b) == IF a >= b THEN a ELSE b

\* Number(desiredTime) || 300
SecsOf(d) == IF d.kind = "number" /\ d.val /= 0 THEN d.val ELSE DefaultSeconds

(* ------------------------------ rooms ---------------------------------- *)
makeRoom(initialSeconds) ==
  [ chess         |-> NewChess,
    players       |-> << >>,
    order         |-> << >>,
    timers        |-> [white |-> initialSeconds, black |-> initialSeconds],
    timerInterval |-> Null,
    turnStartTs   |-> Null ]

\* Object.keys(room.players).length
NumPlayers(room) == Cardinality(DOMAIN room.players)

\* variant: the capacity test is off by one
RoomFull_offByOne(room) == NumPlayers(room) > 2

\* variant: a room is never full
RoomFull_never(room) == FALSE

\* Object.keys(room.players).length >= 2
RoomFull(room) == NumPlayers(room) >= 2

\* variant: every new seat is white
SeatColor_white(room) == "white"

\* Object.keys(room.players).length === 0 ? 'white' : 'black'
SeatColor(room) == IF NumPlayers(room) = 0 THEN "white" ELSE "black"

\* variant: a reconnection also hands out fresh clocks
Reattach_resetClocks(room, pid, s) ==
  [room EXCEPT !.players[pid].socketId = s, !.players[pid].connected = TRUE,
               !.timers = [white |-> DefaultSeconds, black |-> DefaultSeconds]]

\* playerObj.socketId = socket.id; playerObj.connected = true
Reattach(room, pid, s) ==
  [room EXCEPT !.players[pid].socketId = s, !.players[pid].connected = TRUE]

\* getPlayerBySocket: the playerId of the seat bound to socketId, or Null
getPlayerBySocket(room, socketId) ==
  IF \E p \in DOMAIN room.players : room.players[p].socketId = socketId
  THEN CHOOSE p \in DOMAIN room.players :
         /\ room.players[p].socketId = socketId
         /\ \A q \in DOMAIN room.players :
              room.players[q].socketId = socketId => p <= q
  ELSE Null

(* The mutable server state the handlers work on. `ok` turns FALSE when a *)
(* handler would need more ids than the model provides.                   *)
Server == [now |-> now, rooms |-> rooms, heap |-> heap, intervals |-> intervals,
           timeouts |-> timeouts, sockets |-> sockets, nextPid |-> nextPid, illegal |-> illegal,
           ok |-> TRUE]

\* variant: the registry lookup never finds a room
HasRoom_blind(S, roomId) == FALSE

HasRoom(S, roomId) == S.rooms[roomId] /= Null
RoomOf(S, roomId)  == S.heap[S.rooms[roomId]]

FreeHandles(S)    == Handles \ {i.h : i \in S.intervals}
FreeObjs(S)       == {o \in ObjIds : S.heap[o] = NoObj}
FreeTimeoutIds(S) == (1..MaxTimeouts) \ {t.id : t \in S.timeouts}
Lowest(set)       == CHOOSE x \in set : \A y \in set : x <= y

\* a connection before its first command, and after it has gone: the fields
\* of a closed socket object are never read again
NewSocket    == [status |-> "new", roomId |-> Null, playerId |-> Null, member |-> {}]
ClosedSocket == [status |-> "closed", roomId |-> Null, playerId |-> Null, member |-> {}]

\* Garbage: room objects no longer reachable from the registry or a timer
\* closure, and the ids of closed sockets that no seat refers to any more (a
\* later connection gets a fresh id, which is all such an id is).
Collect(S) ==
  LET live == {S.rooms[r] : r \in RoomIds} \cup {i.obj : i \in S.intervals}
      heap1 == [o \in ObjIds |-> IF o \in live THEN S.heap[o] ELSE NoObj]
      bound == UNION {{heap1[o].players[p].socketId : p \in DOMAIN heap1[o].players} :
                        o \in {x \in ObjIds : heap1[x] /= NoObj}}
  IN  [S EXCEPT !.heap = heap1,
                !.sockets = [s \in SocketIds |->
                               IF S.sockets[s].status = "closed" /\ s \notin bound
                               THEN NewSocket ELSE S.sockets[s]]]

\* variant: the `already running?` test is missing
startTimerLoop_noGuard(S, roomId) ==
  IF ~HasRoom(S, roomId) THEN S
  ELSE IF FreeHandles(S) = {} THEN [S EXCEPT !.ok = FALSE]
  ELSE LET o == S.rooms[roomId]
           h == Lowest(FreeHandles(S))
       IN  [S EXCEPT !.heap[o].turnStartTs   = S.now,
                     !.heap[o].timerInterval = h,
                     !.intervals = @ \cup {[h |-> h, obj |-> o, roomId |-> roomId,
                                            due |-> S.now + TickMs]}]

startTimerLoop(S, roomId) ==
  IF ~HasRoom(S, roomId) THEN S
  ELSE IF RoomOf(S, roomId).timerInterval /= Null THEN S
  ELSE IF FreeHandles(S) = {} THEN [S EXCEPT !.ok = FALSE]
  ELSE LET o == S.rooms[roomId]
           h == Lowest(FreeHandles(S))
       IN  [S EXCEPT !.heap[o].turnStartTs   = S.now,
                     !.heap[o].timerInterval = h,
                     !.intervals = @ \cup {[h |-> h, obj |-> o, roomId |-> roomId,
                                            due |-> S.now + TickMs]}]

\* variant: the handle is forgotten but clearInterval is not called
stopTimerLoop_noClear(S, roomId) ==
  IF ~HasRoom(S, roomId) THEN S
  ELSE [S EXCEPT !.heap[S.rooms[roomId]].timerInterval = Null,
                 !.heap[S.rooms[roomId]].turnStartTs   = Null]

stopTimerLoop(S, roomId) ==
  IF ~HasRoom(S, roomId) THEN S
  ELSE LET o == S.rooms[roomId]
           h == S.heap[o].timerInterval
       IN  [S EXCEPT !.heap[o].timerInterval = Null,
                     !.heap[o].turnStartTs   = Null,
                     !.intervals = {i \in @ : h = Null \/ i.h /= h}]

\* variant: the tick source is stopped but the room stays in the registry
clearRoom_keepsRoom(S, roomId) == stopTimerLoop(S, roomId)

clearRoom(S, roomId) ==
  IF ~HasRoom(S, roomId) THEN S
  ELSE [stopTimerLoop(S, roomId) EXCEPT !.rooms[roomId] = Null]

(* ------------------------------ events --------------------------------- *)
Ev(name, to, data) == [ev |-> name, to |-> to, data |-> data]

NoData == [none |-> TRUE]

\* the value of a history variable that records nothing
NoSnap == [none |-> TRUE]

\* the value of `away` for a seat that the last step has brought back
Back == [back |-> TRUE]

\* sockets in the socket.io room roomId
Members(S, roomId) == {s \in SocketIds : roomId \in S.sockets[s].member}

\* what a handler returns: the new server state and the events emitted
Result(S, events) == [srv |-> S, out |-> events]

\* socket.join(roomId); socket.roomId = ...; socket.playerId = ...
Bind(S, s, roomId, pid) ==
  [S EXCEPT !.sockets[s].roomId = roomId,
            !.sockets[s].playerId = pid,
            !.sockets[s].member = @ \cup {roomId}]

(* ------------------------------ handlers ------------------------------- *)
\* socket.on('join')
onJoin(S0, s, roomId, desiredTime, incomingPid) ==
  IF roomId = Null THEN Result(S0, <<Ev("error", {s}, [msg |-> "roomId required"])>>)
  ELSE IF ~HasRoom(S0, roomId) /\ FreeObjs(S0) = {}
  THEN Result([S0 EXCEPT !.ok = FALSE], << >>)
  ELSE
    LET S1 == IF HasRoom(S0, roomId) THEN S0
              ELSE LET n == Lowest(FreeObjs(S0))
                   IN  [S0 EXCEPT !.heap[n] = makeRoom(SecsOf(desiredTime)),
                                  !.rooms[roomId] = n]
        o    == S1.rooms[roomId]
        room == S1.heap[o]
        playerObj == incomingPid /= Null /\ incomingPid \in DOMAIN room.players
    IN
    IF playerObj /\ ~room.players[incomingPid].connected
    THEN \* reattach socket
      LET S2 == [S1 EXCEPT !.heap[o] = Reattach(@, incomingPid, s)]
          S3 == Bind(S2, s, roomId, incomingPid)
          color == room.players[incomingPid].color
      IN  Result(S3, <<Ev("joined", {s},
                          [playerId |-> incomingPid, color |-> color,
                           fen |-> S3.heap[o].chess, timers |-> S3.heap[o].timers]),
                       Ev("player-reconnected", Members(S3, roomId),
                          [playerId |-> incomingPid, color |-> color])>>)
    ELSE IF RoomFull(room)
    THEN Result(S1, <<Ev("error", {s}, [msg |-> "room full"])>>)
    ELSE \* new seat
      LET pid   == S1.nextPid
          color == SeatColor(room)
          S2 == [S1 EXCEPT !.heap[o].players = @ @@ (pid :>
                               [playerId |-> pid, socketId |-> s,
                                color |-> color, connected |-> TRUE]),
                           !.heap[o].order = Append(@, pid),
                           !.nextPid = @ + 1,
                           !.ok = @ /\ pid <= MaxPids]
          S3 == Bind(S2, s, roomId, pid)
          two == NumPlayers(S3.heap[o]) = 2
          S4 == IF two THEN startTimerLoop(S3, roomId) ELSE S3
          joined == Ev("joined", {s},
                       [playerId |-> pid, color |-> color,
                        fen |-> room.chess, timers |-> room.timers])
          second == IF two
                    THEN Ev("start", Members(S3, roomId),
                            [fen |-> room.chess, timers |-> room.timers,
                             turn |-> TurnColor(room.chess)])
                    ELSE Ev("waiting", {s}, NoData)
      IN  Result(S4, <<joined, second,
                       Ev("player-joined", Members(S3, roomId) \ {s},
                          [playerId |-> pid, color |-> color])>>)

\* socket.on('move')
onMove(S0, s, payload) ==
  LET roomId == S0.sockets[s].roomId IN
  IF roomId = Null THEN Result(S0, <<Ev("error", {s}, [msg |-> "not in room"])>>)
  ELSE IF ~HasRoom(S0, roomId)
  THEN Result(S0, <<Ev("error", {s}, [msg |-> "room not found"])>>)
  ELSE IF S0.sockets[s].playerId \notin DOMAIN RoomOf(S0, roomId).players
  THEN Result(S0, <<Ev("error", {s}, [msg |-> "player not found"])>>)
  ELSE
    LET o == S0.rooms[roomId]
        room == S0.heap[o]
        player == room.players[S0.sockets[s].playerId]
        expected == TurnColor(room.chess)
    IN
    IF player.color /= expected
    THEN Result(S0, <<Ev("invalid", {s}, [msg |-> "not your turn"])>>)
    ELSE
      LET elapsedMs  == S0.now - room.turnStartTs
          elapsedSec == elapsedMs \div MsPerSec
          \* deduct elapsed seconds since turnStartTs before applying the move
          S1 == IF room.turnStartTs /= Null
                THEN [S0 EXCEPT !.heap[o].timers[expected] = Max(0, @ - elapsedSec)]
                ELSE S0
          \* apply move
          move == ChessLegal(room.chess, payload)
          Sm == [S1 EXCEPT !.heap[o].chess = ChessMove(@, payload)]
      IN
      IF ~move
      THEN Result([Sm EXCEPT !.illegal = @ + 1, !.ok = @ /\ S0.illegal < MaxIllegal],
                  <<Ev("invalid", {s}, [msg |-> "illegal move"])>>)
      ELSE
        LET S2 == [Sm EXCEPT !.heap[o].turnStartTs = S0.now,
                             !.ok = @ /\ Len(room.chess) < MaxPly]
            S3 == startTimerLoop(stopTimerLoop(S2, roomId), roomId)
            after == S3.heap[o]
            moveEv == Ev("move", Members(S3, roomId),
                         [move |-> payload, fen |-> after.chess,
                          turn |-> TurnColor(after.chess),
                          timers |-> after.timers])
        IN
        IF ~GameOver(after.chess) THEN Result(S3, <<moveEv>>)
        ELSE IF FreeTimeoutIds(S3) = {} THEN Result([S3 EXCEPT !.ok = FALSE], << >>)
        ELSE Result([S3 EXCEPT !.timeouts = @ \cup
                        {[id |-> Lowest(FreeTimeoutIds(S3)), roomId |-> roomId,
                          due |-> S0.now + ClearDelayMs]}],
                    <<moveEv, Ev("gameover", Members(S3, roomId),
                                 [fen |-> after.chess])>>)

\* socket.on('chat')
onChat(S0, s) ==
  LET roomId == S0.sockets[s].roomId IN
  IF roomId = Null \/ ~HasRoom(S0, roomId) THEN Result(S0, << >>)
  ELSE Result(S0, <<Ev("chat", Members(S0, roomId), NoData)>>)

\* socket.on('resign')
onResign(S0, s) ==
  LET roomId == S0.sockets[s].roomId IN
  IF \/ roomId = Null
     \/ ~HasRoom(S0, roomId)
     \/ S0.sockets[s].playerId \notin DOMAIN RoomOf(S0, roomId).players
  THEN Result(S0, << >>)
  ELSE LET loser == RoomOf(S0, roomId).players[S0.sockets[s].playerId]
           winnerColor == Other(loser.color)
       IN  Result(clearRoom(S0, roomId),
                  <<Ev("resign", Members(S0, roomId), [winner |-> winnerColor])>>)

\* socket.on('rematch')
onRematch(S0, s) ==
  LET roomId == S0.sockets[s].roomId IN
  IF roomId = Null \/ ~HasRoom(S0, roomId) THEN Result(S0, << >>)
  ELSE LET o  == S0.rooms[roomId]
           S1 == [S0 EXCEPT !.heap[o].chess = NewChess,
                            !.heap[o].turnStartTs = S0.now]
           S2 == startTimerLoop(stopTimerLoop(S1, roomId), roomId)
       IN  Result(S2, <<Ev("rematch", Members(S0, roomId),
                           [fen |-> NewChess, timers |-> S1.heap[o].timers])>>)

\* socket.on('disconnect'); socket.io has already taken the socket out of its rooms
onDisconnect(S0, s) ==
  LET roomId == S0.sockets[s].roomId
      Sc == [S0 EXCEPT !.sockets[s] = ClosedSocket]
  IN
  IF \/ roomId = Null
     \/ ~HasRoom(S0, roomId)
     \/ getPlayerBySocket(RoomOf(S0, roomId), s) = Null
  THEN Result(Sc, << >>)
  ELSE LET o   == S0.rooms[roomId]
           pid == getPlayerBySocket(S0.heap[o], s)
           S1  == [Sc EXCEPT !.heap[o].players[pid].connected = FALSE,
                             !.heap[o].players[pid].socketId = Null]
           ps  == S1.heap[o].players
           connectedCount == Cardinality({p \in DOMAIN ps : ps[p].connected})
           S2  == IF connectedCount = 0 THEN clearRoom(S1, roomId) ELSE S1
       IN  Result(S2, <<Ev("peer-left", Members(Sc, roomId),
                           [playerId |-> pid, color |-> ps[pid].color])>>)

\* the setInterval callback installed by startTimerLoop, for interval i; the
\* 'timeouts' event carries the id of the socket.io room it is sent to
onTick(S0, i) ==
  LET room == S0.heap[i.obj]
      currentTurn == TurnColor(room.chess)
      S1 == IF room.timers[currentTurn] > 0
            THEN [S0 EXCEPT !.heap[i.obj].timers[currentTurn] = Max(0, @ - 1)]
            ELSE S0
      timers1 == S1.heap[i.obj].timers
      expired == timers1[currentTurn] <= 0
      S2 == IF expired THEN clearRoom(S1, i.roomId) ELSE S1
      \* Node re-arms a repeating timer once its callback has run
      S3 == [S2 EXCEPT !.intervals =
               {IF j.h = i.h THEN [j EXCEPT !.due = S0.now + TickMs] ELSE j : j \in @}]
      timersEv == Ev("timers", Members(S0, i.roomId),
                     [timers |-> timers1, turn |-> currentTurn])
  IN  IF expired
      THEN Result(S3, <<timersEv, Ev("timeouts", Members(S0, i.roomId),
                                     [roomId |-> i.roomId,
                                      winner |-> Other(currentTurn)])>>)
      ELSE Result(S3, <<timersEv>>)

\* the setTimeout callback scheduled after 'gameover'
onClearTimeout(S0, t) ==
  Result(clearRoom([S0 EXCEPT !.timeouts = @ \ {t}], t.roomId), << >>)

\* The server left alone until `target`: every interval callback that is due
\* before then runs when it is due, the earliest first.
RECURSIVE runTimers(_, _, _)
runTimers(S, events, target) ==
  LET dueSet == {i \in S.intervals : i.due < target} IN
  IF dueSet = {} THEN Result([S EXCEPT !.now = target], events)
  ELSE LET i  == CHOOSE x \in dueSet :
                   \A y \in dueSet : x.due < y.due \/ (x.due = y.due /\ x.h <= y.h)
           R  == onTick([S EXCEPT !.now = Max(S.now, i.due)], i)
       IN  runTimers(R.srv, events \o R.out, target)

\* the time at which the next setTimeout callback is due
NextTimeout(S) == LET ds == {t.due : t \in S.timeouts} IN Lowest(ds)

(* ------------------------------- Init ---------------------------------- *)
Init ==
  /\ now = T0
  /\ rooms = [r \in RoomIds |-> Null]
  /\ heap = [o \in ObjIds |-> NoObj]
  /\ intervals = {}
  /\ timeouts = {}
  /\ sockets = [s \in SocketIds |-> NewSocket]
  /\ nextPid = 1
  /\ illegal = 0
  /\ epochClock = [o \in ObjIds |-> NoSnap]
  /\ away = [p \in Pids |-> NoSnap]
  /\ timedOut = {}

(* ------------------------------ actions -------------------------------- *)
(* History variables, computed from the state before and after a handler. *)
Snap(room) == [chess |-> room.chess, timers |-> room.timers]

\* the room object in which p has a seat, or Null
SeatObj(S, p) ==
  LET os == {o \in ObjIds : S.heap[o] /= NoObj /\ p \in DOMAIN S.heap[o].players}
  IN  IF os = {} THEN Null ELSE Lowest(os)

\* the clocks at the moment the handler (re)started the turn epoch of object o
EpochClockAfter(S0, S1, o) ==
  IF S1.heap[o] = NoObj \/ S1.heap[o].turnStartTs = Null THEN NoSnap
  ELSE IF /\ S1.heap[o].turnStartTs = S1.now
          /\ (S0.heap[o] = NoObj \/ S0.heap[o].turnStartTs /= S1.now)
       THEN S1.heap[o].timers
       ELSE epochClock[o]

\* the game state seat p left behind when its connection went away; Back
\* right after the step that re-attached the seat
AwayAfter(S0, S1, p) ==
  LET o0 == SeatObj(S0, p)
      o1 == SeatObj(S1, p)
  IN  IF o1 = Null THEN NoSnap
      ELSE IF S1.heap[o1].players[p].connected
           THEN IF o0 /= Null /\ ~S0.heap[o0].players[p].connected THEN Back ELSE NoSnap
      ELSE IF o0 /= Null /\ S0.heap[o0].players[p].connected THEN Snap(S0.heap[o0])
      ELSE away[p]

\* the seats of the rooms for which the handler emitted 'timeouts' after its
\* ticks had brought the clock of the side to move from above 0 down to 0
TimedOutBy(S0, events) ==
  UNION {DOMAIN RoomOf(S0, events[k].data.roomId).players :
           k \in {j \in DOMAIN events :
                    /\ events[j].ev = "timeouts"
                    /\ RoomOf(S0, events[j].data.roomId).timers[Other(events[j].data.winner)] > 0}}

\* commit the server state a handler returns
Commit(R) ==
  LET S0 == Server
      S1 == Collect(R.srv)
  IN
  /\ R.srv.ok
  /\ rooms' = S1.rooms
  /\ heap' = S1.heap
  /\ intervals' = S1.intervals
  /\ timeouts' = S1.timeouts
  /\ sockets' = S1.sockets
  /\ nextPid' = S1.nextPid
  /\ now' = S1.now
  /\ illegal' = S1.illegal
  /\ epochClock' = [o \in ObjIds |-> EpochClockAfter(S0, S1, o)]
  /\ away' = [p \in Pids |-> AwayAfter(S0, S1, p)]
  /\ timedOut' = timedOut \cup TimedOutBy(S0, R.out)

\* the connection is established and clients are still active
Open(s) == sockets[s].status = "open" /\ now <= MaxTime

\* io.on('connection') only installs the handlers, so a connection enters the
\* state with its first join; socket ids are fresh, so the connections are
\* numbered in the order in which they are first heard from
CanJoin(s) ==
  /\ now <= MaxTime
  /\ \/ sockets[s].status = "open"
     \/ /\ sockets[s].status = "new"
        /\ \A t \in SocketIds : t < s => sockets[t].status /= "new"

Connected(S, s) == [S EXCEPT !.sockets[s].status = "open"]

\* a timer callback runs as soon as it is due
NothingDue(t) ==
  /\ \A i \in intervals : t <= i.due
  /\ \A c \in timeouts : t <= c.due

\* one second passes
Advance ==
  /\ now + Quantum <= MaxTime
  /\ NothingDue(now + Quantum)
  /\ now' = now + Quantum
  /\ away' = [p \in Pids |-> IF away[p] = Back THEN NoSnap ELSE away[p]]
  /\ UNCHANGED <<rooms, heap, intervals, timeouts, sockets, nextPid, illegal,
                 epochClock, timedOut>>

\* once the clients have gone quiet, the server runs on its own until the
\* next scheduled clearRoom is due
Idle ==
  /\ now + Quantum > MaxTime
  /\ timeouts /= {}
  /\ now < NextTimeout(Server)
  /\ Commit(runTimers(Server, << >>, NextTimeout(Server)))

Join(s, roomId, desiredTime, incomingPid) ==
  CanJoin(s) /\ Commit(onJoin(Connected(Server, s), s, roomId, desiredTime, incomingPid))

Move(s, payload) == Open(s) /\ Commit(onMove(Server, s, payload))

Chat(s) == Open(s) /\ Commit(onChat(Server, s))

Resign(s) == Open(s) /\ Commit(onResign(Server, s))

Rematch(s) == Open(s) /\ Commit(onRematch(Server, s))

Disconnect(s) == Open(s) /\ Commit(onDisconnect(Server, s))

Tick(i) == i \in intervals /\ now >= i.due /\ Commit(onTick(Server, i))

ClearTimeout(t) == t \in timeouts /\ now >= t.due /\ Commit(onClearTimeout(Server, t))

\* the payloads worth sending: desiredTime is read only when the room is
\* created, and a playerId is one the server has handed out
JoinTimes(r) ==
  IF r = Null THEN {[kind |-> "undefined"]}
  ELSE IF rooms[r] /= Null THEN {[kind |-> "number", val |-> 1]}
  ELSE DesiredTimes

JoinPids(r) == IF r = Null THEN {Null} ELSE 0..(nextPid - 1)

Next ==
  \/ \E s \in SocketIds, r \in RoomIds \cup {Null} :
       \E d \in JoinTimes(r), p \in JoinPids(r) : Join(s, r, d, p)
  \/ \E s \in SocketIds, m \in MovePayloads : Move(s, m)
  \/ \E s \in SocketIds : Chat(s)
  \/ \E s \in SocketIds : Resign(s)
  \/ \E s \in SocketIds : Rematch(s)
  \/ \E s \in SocketIds : Disconnect(s)
  \/ \E i \in intervals : Tick(i)
  \/ \E t \in timeouts : ClearTimeout(t)
  \/ Advance
  \/ Idle

Spec == Init /\ [][Next]_vars

(* ------------------------------ properties ----------------------------- *)
Present(o) == heap[o] /= NoObj

\* The step is the move command m of connection s.  A move command never
\* changes the wall clock, the uuid source, the socket fields or the registry
\* (MoveFrame), which tells most other steps apart at once.
MoveStep(s, m) ==
  /\ now' = now /\ nextPid' = nextPid /\ sockets' = sockets /\ rooms' = rooms
  /\ Move(s, m)

\* the step is the callback of interval i
TickStep(i) == now' = now /\ nextPid' = nextPid /\ illegal' = illegal /\ Tick(i)

\* the step is the disconnection of s
DisconnectStep(s) == sockets'[s] /= sockets[s] /\ nextPid' = nextPid /\ Disconnect(s)

MoveFrame ==
  [][\A s \in SocketIds, m \in MovePayloads : Move(s, m) => MoveStep(s, m)]_vars

\* the first event a move command is answered with: "move", "invalid" or "error"
MoveOutcome(s, m) == onMove(Server, s, m).out[1].ev

\* position, clocks and history of every room are what they were
GameStateKept ==
  \A o \in ObjIds : Present(o) => heap'[o] /= NoObj /\ Snap(heap'[o]) = Snap(heap[o])

\* no clock of any room is below 0
ClocksSane ==
  \A o \in ObjIds : Present(o) =>
    heap[o].timers["white"] >= 0 /\ heap[o].timers["black"] >= 0

\* C1: a move command that is rejected as out of turn or as illegal leaves the
\* position, both clocks and the move history of the room exactly as they were
\* (stated for rooms whose clocks are not below 0 when the command arrives).
C1_RejectedMoveAtomic ==
  [][\A s \in SocketIds, m \in MovePayloads :
       (MoveStep(s, m) /\ MoveOutcome(s, m) = "invalid" /\ ClocksSane) => GameStateKept]_vars

\* C2: at an accepted move made after thinking for t, the mover's clock has lost
\* exactly t since the turn began (ticks and the move handler's deduction taken
\* together), and the other clock is what it was when the turn began.  Stated
\* for turns in which the clock had at least t left and no illegal move was sent.
C2_MoveTimeCountedOnce ==
  [][\A s \in SocketIds, m \in MovePayloads :
       (MoveStep(s, m) /\ MoveOutcome(s, m) = "move") =>
         LET o == rooms[sockets[s].roomId]
             c == TurnColor(heap[o].chess)
             t == now - heap[o].turnStartTs
         IN  (/\ heap[o].turnStartTs /= Null
              /\ epochClock[o] /= NoSnap
              /\ illegal = 0
              /\ epochClock[o][c] * MsPerSec >= t)
             => /\ (epochClock[o][c] - heap'[o].timers[c]) * MsPerSec = t
                /\ heap'[o].timers[Other(c)] = epochClock[o][Other(c)]]_vars

\* C3: every room of the registry has at most two seats, and no two seats of a
\* room have the same color.
C3_SeatsAtMostTwoDistinctColors ==
  \A r \in RoomIds : rooms[r] /= Null =>
    LET room == heap[rooms[r]] IN
    /\ NumPlayers(room) <= 2
    /\ \A p, q \in DOMAIN room.players :
         p /= q => room.players[p].color /= room.players[q].color

\* a full room with a white and a black seat, and a connection that was turned away
C3_Witness ==
  \E r \in RoomIds :
    /\ rooms[r] /= Null
    /\ {heap[rooms[r]].players[p].color : p \in DOMAIN heap[rooms[r]].players} = Colors
    /\ \E s \in SocketIds : sockets[s].status = "open" /\ sockets[s].roomId = Null

\* C4: an accepted move appends one move and hands the turn to the other color;
\* a rejected move (out of turn, illegal, unknown player, unknown room) leaves
\* the registry, every history and every side-to-move as they were.
C4_TurnAlternation ==
  [][\A s \in SocketIds, m \in MovePayloads :
       MoveStep(s, m) =>
         IF MoveOutcome(s, m) = "move"
         THEN LET o == rooms[sockets[s].roomId] IN
              /\ rooms' = rooms
              /\ Len(heap'[o].chess) = Len(heap[o].chess) + 1
              /\ TurnColor(heap'[o].chess) = Other(TurnColor(heap[o].chess))
         ELSE /\ rooms' = rooms
              /\ \A o \in ObjIds : Present(o) =>
                   /\ heap'[o] /= NoObj
                   /\ heap'[o].chess = heap[o].chess
                   /\ TurnColor(heap'[o].chess) = TurnColor(heap[o].chess)]_vars

\* white and black have each made an accepted move, and an illegal move was rejected
C4_Witness ==
  \E o \in ObjIds : Present(o) /\ Len(heap[o].chess) = 2 /\ illegal = 1

\* C5: a move sent by the only seat of a room that has no second seat yet is
\* rejected: board, clocks and tick source stay as they were.
C5_MoveOnlyWhilePlaying ==
  [][\A s \in SocketIds, m \in MovePayloads :
       (/\ MoveStep(s, m)
        /\ sockets[s].roomId /= Null
        /\ rooms[sockets[s].roomId] /= Null
        /\ NumPlayers(heap[rooms[sockets[s].roomId]]) = 1)
       => UNCHANGED <<rooms, heap, intervals>>]_vars

\* the join of (s, r, p) re-binds the disconnected seat p of room r
IsReconnect(r, p) ==
  /\ rooms[r] /= Null
  /\ p \in DOMAIN heap[rooms[r]].players
  /\ ~heap[rooms[r]].players[p].connected

ReconnectStep(s, r, p) ==
  IsReconnect(r, p) /\ \E d \in JoinTimes(r) : Join(s, r, d, p)

\* C6 as stated: at a reconnection the room holds the position, clocks and
\* history it held immediately before that seat disconnected.
C6_ReconnectSeesStateAtDisconnect ==
  [][\A s \in SocketIds, r \in RoomIds, p \in Pids :
       ReconnectStep(s, r, p) => Snap(heap'[rooms'[r]]) = away[p]]_vars

\* C6 as amended: neither the disconnect handler nor the reconnecting join
\* changes the position, clocks or history of a room, and the 'joined' reply of
\* a reconnection reports the room's current position and clocks.
C6_CycleDoesNotMutate ==
  [][/\ \A s \in SocketIds : DisconnectStep(s) =>
          \A o \in ObjIds : (Present(o) /\ heap'[o] /= NoObj) =>
             Snap(heap'[o]) = Snap(heap[o])
     /\ \A s \in SocketIds, r \in RoomIds, p \in Pids :
          ReconnectStep(s, r, p) =>
            LET reply == onJoin(Connected(Server, s), s, r, [kind |-> "undefined"], p).out[1]
            IN  /\ GameStateKept
                /\ reply.ev = "joined"
                /\ reply.data.fen = heap[rooms[r]].chess
                /\ reply.data.timers = heap[rooms[r]].timers]_vars

\* the last step has re-attached a disconnected seat
C6_Witness == \E p \in Pids : away[p] = Back

\* C7: both clocks of every room are >= 0, whatever desiredTime created the room.
C7_ClocksNonNegative ==
  \A o \in ObjIds, c \in Colors : Present(o) => heap[o].timers[c] >= 0

\* the handler result R brings a clock that was above 0 down to 0
ReachesZero(R) ==
  \E o \in ObjIds, c \in Colors :
    /\ Present(o)
    /\ heap[o].timers[c] > 0
    /\ R.srv.heap[o] /= NoObj
    /\ R.srv.heap[o].timers[c] = 0

TimeoutsEmitted(R) == Cardinality({k \in DOMAIN R.out : R.out[k].ev = "timeouts"})

\* C8: whenever a clock reaches 0, by a tick or by the deduction of the move
\* handler, the handler that brings it there emits 'timeouts' exactly once.
C8_TimeoutExactlyOnce ==
  [][/\ \A s \in SocketIds, m \in MovePayloads :
          (MoveStep(s, m) /\ ReachesZero(onMove(Server, s, m)))
          => TimeoutsEmitted(onMove(Server, s, m)) = 1
     /\ \A i \in intervals :
          (TickStep(i) /\ ReachesZero(onTick(Server, i)))
          => TimeoutsEmitted(onTick(Server, i)) = 1]_vars

\* C9: a room has at most one active tick source, and it is the one whose
\* handle the room holds (so that stopTimerLoop cancels it).
C9_OneTickSource ==
  /\ \A r \in RoomIds : Cardinality({i \in intervals : i.roomId = r}) <= 1
  /\ \A o \in ObjIds : Cardinality({i \in intervals : i.obj = o}) <= 1
  /\ \A i \in intervals :
       /\ rooms[i.roomId] = i.obj
       /\ heap[i.obj].timerInterval = i.h

\* the tick source of a room with two seats has been restarted by an accepted move
C9_Witness ==
  \E i \in intervals :
    /\ NumPlayers(heap[i.obj]) = 2
    /\ Len(heap[i.obj].chess) >= 1
    /\ heap[i.obj].turnStartTs = now
    /\ now > T0

\* C10: when a tick brings the side-to-move's clock to 0 the room emits
\* 'timeouts' with the other color as winner, leaves the registry and has no
\* tick source any more; no tick source ever belongs to a room that timed out;
\* and a move sent over the connection of a seat of a timed-out room is
\* answered with an error and changes nothing.
C10_TimeoutEndsRoom ==
  [][/\ \A i \in intervals :
          (TickStep(i) /\ heap[i.obj].timers[TurnColor(heap[i.obj].chess)] = 1) =>
            LET R == onTick(Server, i) IN
            /\ TimeoutsEmitted(R) = 1
            /\ R.out[Len(R.out)].data.winner = Other(TurnColor(heap[i.obj].chess))
            /\ rooms'[i.roomId] = Null
            /\ \A j \in intervals' : j.roomId /= i.roomId
            /\ DOMAIN heap[i.obj].players \subseteq timedOut'
     /\ \A j \in intervals' : DOMAIN heap'[j.obj].players \cap timedOut' = {}
     /\ \A s \in SocketIds, m \in MovePayloads :
          (MoveStep(s, m) /\ sockets[s].playerId \in timedOut) =>
            /\ MoveOutcome(s, m) = "error"
            /\ UNCHANGED <<rooms, heap, intervals, timeouts, sockets, nextPid>>]_vars

\* the connection of a seat of a timed-out room is still open
C10_Witness ==
  \E s \in SocketIds : sockets[s].status = "open" /\ sockets[s].playerId \in timedOut

\* the seat the connection s is bound to in the room the registry holds under
\* socket.roomId, or Null
SeatOfSocket(s) ==
  IF sockets[s].roomId = Null \/ rooms[sockets[s].roomId] = Null THEN Null
  ELSE getPlayerBySocket(heap[rooms[sockets[s].roomId]], s)

\* C11: after the disconnection of a seat's connection, also of the last
\* connected one, the room is still in the registry, and it still has that
\* seat, with its color, and the same position and history.
C11_DisconnectKeepsRoom ==
  [][\A s \in SocketIds :
       (DisconnectStep(s) /\ SeatOfSocket(s) /= Null) =>
         LET r == sockets[s].roomId
             o == rooms[r]
             p == SeatOfSocket(s)
         IN  /\ rooms'[r] = o
             /\ heap'[o] /= NoObj
             /\ p \in DOMAIN heap'[o].players
             /\ heap'[o].players[p].color = heap[o].players[p].color
             /\ heap'[o].chess = heap[o].chess]_vars

\* the step is the join of connection s to room r with playerId p
JoinStep(s, r, p) == \E d \in JoinTimes(r) : Join(s, r, d, p)

\* the events the join of (s, r, p) emits when the room r exists
JoinEvents(s, r, p) ==
  onJoin(Connected(Server, s), s, r, [kind |-> "undefined"], p).out

Emits(events, name) == \E k \in DOMAIN events : events[k].ev = name

\* the room r exists and p is the identity of one of its seats
KnownSeat(r, p) == rooms[r] /= Null /\ p \in DOMAIN heap[rooms[r]].players

\* C12: a join carrying the identity of a seat of the room, connected or not,
\* creates no seat, issues no identity, emits no 'start' and starts no clock.
C12_KnownIdentityOnlyRebinds ==
  [][\A s \in SocketIds, r \in RoomIds, p \in Pids :
       (KnownSeat(r, p) /\ JoinStep(s, r, p)) =>
         /\ nextPid' = nextPid
         /\ DOMAIN heap'[rooms[r]].players = DOMAIN heap[rooms[r]].players
         /\ ~Emits(JoinEvents(s, r, p), "start")
         /\ intervals' = intervals]_vars

\* the step is the rematch command of connection s
RematchStep(s) ==
  now' = now /\ nextPid' = nextPid /\ sockets' = sockets /\ rooms' = rooms /\ Rematch(s)

\* the room the commands of connection s are addressed to, or Null
RoomObjOf(s) ==
  IF sockets[s].roomId = Null THEN Null ELSE rooms[sockets[s].roomId]

\* C13: a rematch command that arrives while the game of the room is not over
\* (in progress, or waiting for the second seat) leaves the board, the history,
\* the clocks and the tick source as they were.
C13_RematchOnlyWhenOver ==
  [][\A s \in SocketIds :
       (/\ RematchStep(s)
        /\ RoomObjOf(s) /= Null
        /\ ~GameOver(heap[RoomObjOf(s)].chess))
       => /\ GameStateKept
          /\ intervals' = intervals
          /\ heap'[RoomObjOf(s)].timerInterval = heap[RoomObjOf(s)].timerInterval]_vars

\* the result of a join of connection s to room r with desiredTime d and
\* playerId p
JoinResult(s, r, d, p) == onJoin(Connected(Server, s), s, r, d, p)

ResignStep(s) == now' = now /\ nextPid' = nextPid /\ sockets' = sockets /\ Resign(s)

\* the seat socket.playerId names in the room the commands of s go to, or Null
PlayerOf(s) ==
  IF RoomObjOf(s) = Null THEN Null
  ELSE IF sockets[s].playerId \in DOMAIN heap[RoomObjOf(s)].players
       THEN sockets[s].playerId ELSE Null

\* C16: a resign command of a seated player emits 'resign' with the color of
\* the other seat as winner; after it the room is out of the registry, has no
\* tick source and is out of reach of every handler, so that no tick fires for
\* it and none of its clocks changes any more.
C16_ResignEndsGame ==
  [][\A s \in SocketIds :
       (ResignStep(s) /\ PlayerOf(s) /= Null) =>
         LET o == RoomObjOf(s)
             R == onResign(Server, s)
         IN  /\ Len(R.out) = 1
             /\ R.out[1].ev = "resign"
             /\ R.out[1].data.winner = Other(heap[o].players[PlayerOf(s)].color)
             /\ rooms'[sockets[s].roomId] = Null
             /\ \A i \in intervals' : i.roomId /= sockets[s].roomId
             /\ \A i \in R.srv.intervals : i.obj /= o
             /\ R.srv.heap[o].timers = heap[o].timers
             /\ \A r \in RoomIds : rooms'[r] /= o]_vars

\* before any tick could fire, a connection is left bound to a room id that
\* has no room any more: its room ended by resignation
C16_Witness ==
  /\ now = T0
  /\ intervals = {}
  /\ \E s \in SocketIds :
       /\ sockets[s].status = "open"
       /\ sockets[s].roomId /= Null
       /\ sockets[s].playerId /= Null
       /\ rooms[sockets[s].roomId] = Null

\* the seats of the room of s that stay connected, over an open connection of
\* their own, when s goes away
StayConnected(s) ==
  {p \in DOMAIN heap[RoomObjOf(s)].players :
     /\ p /= SeatOfSocket(s)
     /\ heap[RoomObjOf(s)].players[p].connected
     /\ heap[RoomObjOf(s)].players[p].socketId /= s
     /\ sockets[heap[RoomObjOf(s)].players[p].socketId].status = "open"}

\* the disconnection of s, a seat of a game of two, leaves the other seat connected
LeavesPeer(s) ==
  /\ SeatOfSocket(s) /= Null
  /\ NumPlayers(heap[RoomObjOf(s)]) = 2
  /\ StayConnected(s) /= {}

\* first half of C17: the seat that stays receives 'peer-left' and the room
\* stays in the registry
C17_PeerLeftRoomStays ==
  [][\A s \in SocketIds :
       (DisconnectStep(s) /\ LeavesPeer(s)) =>
         LET R == onDisconnect(Server, s) IN
         /\ Len(R.out) = 1
         /\ R.out[1].ev = "peer-left"
         /\ \A p \in StayConnected(s) :
              heap[RoomObjOf(s)].players[p].socketId \in R.out[1].to
         /\ rooms'[sockets[s].roomId] = RoomObjOf(s)]_vars

\* C17: when a seat of a game of two disconnects and the other seat stays
\* connected, the other seat receives 'peer-left', the room stays in the
\* registry, and the removal of the room at the end of the grace period is
\* scheduled (a timer that will call clearRoom for the room is pending).
C17_DisconnectStartsGrace ==
  [][\A s \in SocketIds :
       (DisconnectStep(s) /\ LeavesPeer(s)) =>
         /\ Emits(onDisconnect(Server, s).out, "peer-left")
         /\ rooms'[sockets[s].roomId] = RoomObjOf(s)
         /\ (GameOver(heap[RoomObjOf(s)].chess)
             \/ \E t \in timeouts' : t.roomId = sockets[s].roomId)]_vars

\* a join that asks for a clock of 300 seconds
Ask300 == [kind |-> "number", val |-> 300]

Clocks300 == [white |-> 300, black |-> 300]

\* room r is as the creating join of connection s1 with a 300-second clock
\* leaves it: one white seat, bound to s1, no move made, no tick source
FreshWaiting(r, s1) ==
  /\ rooms[r] /= Null
  /\ sockets[s1].status = "open"
  /\ LET room == heap[rooms[r]] IN
     /\ NumPlayers(room) = 1
     /\ \A p \in DOMAIN room.players :
          room.players[p] = [playerId |-> p, socketId |-> s1,
                             color |-> "white", connected |-> TRUE]
     /\ room.chess = NewChess
     /\ room.timers = Clocks300
     /\ room.timerInterval = Null
  /\ \A i \in intervals : i.roomId /= r

\* C18: the join that creates a room with a 300-second clock seats the joiner
\* as white, emits no 'start' and starts no tick source; the join of a second
\* connection then seats it as black, emits 'start' once, to both connections,
\* with clocks white = 300, black = 300 and turn = white, and starts the one
\* tick source of the room.
C18_ScenarioA ==
  [][\A s \in SocketIds, r \in RoomIds :
       /\ (rooms[r] = Null /\ Join(s, r, Ask300, Null)) =>
            /\ FreshWaiting(r, s)'
            /\ ~Emits(JoinResult(s, r, Ask300, Null).out, "start")
       /\ \A s1 \in SocketIds \ {s}, p \in 0..(nextPid - 1) :
            (FreshWaiting(r, s1) /\ JoinStep(s, r, p)) =>
              LET ev   == JoinEvents(s, r, p)
                  room == heap'[rooms[r]]
                  new  == DOMAIN room.players \ DOMAIN heap[rooms[r]].players
              IN  /\ Cardinality({k \in DOMAIN ev : ev[k].ev = "start"}) = 1
                  /\ \A k \in DOMAIN ev : ev[k].ev = "start" =>
                       /\ {s1, s} \subseteq ev[k].to
                       /\ ev[k].data.timers = Clocks300
                       /\ ev[k].data.turn = "white"
                  /\ Cardinality(new) = 1
                  /\ \A q \in new : room.players[q].color = "black"
                                    /\ room.players[q].socketId = s
                  /\ \A q \in DOMAIN heap[rooms[r]].players :
                       room.players[q] = heap[rooms[r]].players[q]
                  /\ Cardinality({i \in intervals' : i.roomId = r}) = 1
                  /\ room.timerInterval /= Null]_vars

\* two connections sit in a room created with a 300-second clock, white the
\* first and black the second, and the tick source has just been started
C18_Witness ==
  \E r \in RoomIds, s1, s2 \in SocketIds :
    /\ s1 /= s2
    /\ rooms[r] /= Null
    /\ sockets[s1].status = "open" /\ sockets[s2].status = "open"
    /\ LET room == heap[rooms[r]] IN
       /\ NumPlayers(room) = 2
       /\ \E p, q \in DOMAIN room.players :
            /\ p < q
            /\ room.players[p].color = "white" /\ room.players[p].socketId = s1
            /\ room.players[q].color = "black" /\ room.players[q].socketId = s2
       /\ room.chess = NewChess
       /\ room.timers = Clocks300
       /\ room.turnStartTs = now
       /\ \E i \in intervals : i.obj = rooms[r] /\ i.h = room.timerInterval

\* C19: after an accepted move that ends a game of two seats (the rule engine
\* reports game over) the room has no active tick source.
C19_NoTickAfterGameOver ==
  [][\A s \in SocketIds, m \in MovePayloads :
       (/\ MoveStep(s, m)
        /\ MoveOutcome(s, m) = "move"
        /\ NumPlayers(heap[RoomObjOf(s)]) = 2
        /\ Emits(onMove(Server, s, m).out, "gameover"))
       => /\ \A i \in intervals' : i.obj /= RoomObjOf(s)
          /\ heap'[RoomObjOf(s)].timerInterval = Null]_vars

\* the step is the callback of the pending setTimeout t
ClearTimeoutStep(t) == nextPid' = nextPid /\ illegal' = illegal /\ ClearTimeout(t)

\* C20: a room that has re-entered play by a rematch before the deadline
\* scheduled for its finished game is not removed when that deadline expires:
\* the callback of the deadline leaves a room whose game is in progress in the
\* registry, with its two seats and its tick source.
C20_RematchSurvivesDeadline ==
  [][\A t \in timeouts :
       (/\ ClearTimeoutStep(t)
        /\ rooms[t.roomId] /= Null
        /\ NumPlayers(heap[rooms[t.roomId]]) = 2
        /\ ~GameOver(heap[rooms[t.roomId]].chess))
       => /\ rooms'[t.roomId] = rooms[t.roomId]
          /\ heap'[rooms[t.roomId]] = heap[rooms[t.roomId]]]_vars

(* ------------------------- timer callbacks run late --------------------- *)
MaxLateness == 1        \* seconds by which a setInterval callback may run late

\* one second passes although a timer callback may be due: Node runs a
\* callback no earlier than it is due, and later when the event loop is busy
Delay ==
  /\ now + Quantum <= MaxTime + MaxLateness * Quantum
  /\ \A i \in intervals : now + Quantum <= i.due + MaxLateness * Quantum
  /\ \A c \in timeouts : now + Quantum <= c.due
  /\ now' = now + Quantum
  /\ away' = [p \in Pids |-> IF away[p] = Back THEN NoSnap ELSE away[p]]
  /\ UNCHANGED <<rooms, heap, intervals, timeouts, sockets, nextPid, illegal,
                 epochClock, timedOut>>

\* the server under a scheduler that may run the interval callbacks late
NextJitter ==
  \/ \E s \in SocketIds, r \in RoomIds \cup {Null} :
       \E d \in JoinTimes(r), p \in JoinPids(r) : Join(s, r, d, p)
  \/ \E s \in SocketIds, m \in MovePayloads : Move(s, m)
  \/ \E s \in SocketIds : Chat(s)
  \/ \E s \in SocketIds : Resign(s)
  \/ \E s \in SocketIds : Rematch(s)
  \/ \E s \in SocketIds : Disconnect(s)
  \/ \E i \in intervals : Tick(i)
  \/ \E t \in timeouts : ClearTimeout(t)
  \/ Delay
  \/ Idle

SpecJitter == Init /\ [][NextJitter]_vars

\* the time at which the callback of interval i ran last, or at which the
\* interval was started: each (re-)arming sets due to that time + TickMs
LastRun(i) == i.due - TickMs

\* C21: each tick takes from the clock of the side to move exactly the time
\* that has passed since the previous tick or the start of the interval, also
\* when it runs late (stated for clocks that have at least that much left).
C21_TickDeductsElapsed ==
  [][\A i \in intervals :
       TickStep(i) =>
         LET c       == TurnColor(heap[i.obj].chess)
             elapsed == now - LastRun(i)
             after   == onTick(Server, i).srv.heap[i.obj].timers
         IN  heap[i.obj].timers[c] * MsPerSec >= elapsed
             => (heap[i.obj].timers[c] - after[c]) * MsPerSec = elapsed]_vars

(***************************************************************************)
(* The timed server without player ids (src/unnamed/part_000, lines        *)
(* 172-352).  It keeps the same kind of state: the registry `rooms`, the   *)
(* room objects in `heap`, the timer tables and the socket fields.  A seat *)
(* is keyed by the id of its connection and is deleted when the connection *)
(* goes; a room object also has the flag timerRunning.  The uuid source,   *)
(* the illegal-move counter and the history variables are not used.        *)
(***************************************************************************)
DeleteDelayMs == 1000 * 60 * 5   \* setTimeout(() => { rooms.delete(roomId); }, 1000 * 60 * 5)

\* makeRoom(roomId, initialSeconds) of the timed server
makeRoomT(initialSeconds) ==
  [ chess         |-> NewChess,
    players       |-> << >>,
    order         |-> << >>,
    timers        |-> [white |-> initialSeconds, black |-> initialSeconds],
    timerRunning  |-> FALSE,
    timerInterval |-> Null,
    turnStartTs   |-> Null ]

\* r.order.filter(id => id !== socket.id)
RECURSIVE Without(_, _)
Without(seq, x) ==
  IF seq = << >> THEN << >>
  ELSE IF Head(seq) = x THEN Without(Tail(seq), x)
       ELSE <<Head(seq)>> \o Without(Tail(seq), x)

MaxOrder == 2           \* entries of a room's order list

\* Garbage of the timed server: room objects reachable neither from the
\* registry nor from an interval closure; the seats and the order list of an
\* object that only an interval closure holds (the callback reads its board,
\* clocks, turnStartTs and timerInterval only); and the ids of closed
\* connections that no seat is keyed by.
CollectT(S) ==
  LET reg   == {S.rooms[r] : r \in RoomIds}
      live  == reg \cup {i.obj : i \in S.intervals}
      heap1 == [o \in ObjIds |->
                  IF o \in reg THEN S.heap[o]
                  ELSE IF o \in live
                       THEN [S.heap[o] EXCEPT !.players = << >>, !.order = << >>]
                       ELSE NoObj]
      keyed == UNION {DOMAIN heap1[o].players : o \in {x \in ObjIds : heap1[x] /= NoObj}}
  IN  [S EXCEPT !.heap = heap1,
                !.sockets = [s \in SocketIds |->
                               IF S.sockets[s].status = "closed" /\ s \notin keyed
                               THEN NewSocket ELSE S.sockets[s]]]

\* clearRoom of the timed server: rooms.delete(roomId) and nothing else
clearRoomT(S, roomId) ==
  IF ~HasRoom(S, roomId) THEN S ELSE [S EXCEPT !.rooms[roomId] = Null]

startTimers(S, roomId) ==
  IF ~HasRoom(S, roomId) THEN S
  ELSE LET o  == S.rooms[roomId]
           S1 == [S EXCEPT !.heap[o].turnStartTs = S.now]
       IN  IF S.heap[o].timerRunning THEN S1
           ELSE IF FreeHandles(S) = {} THEN [S EXCEPT !.ok = FALSE]
           ELSE LET h == Lowest(FreeHandles(S))
                IN  [S1 EXCEPT !.heap[o].timerRunning  = TRUE,
                               !.heap[o].timerInterval = h,
                               !.intervals = @ \cup {[h |-> h, obj |-> o, roomId |-> roomId,
                                                      due |-> S.now + TickMs]}]

stopTurnTimerUpdate(S, roomId) ==
  IF ~HasRoom(S, roomId) THEN S
  ELSE LET o == S.rooms[roomId]
           h == S.heap[o].timerInterval
       IN  IF h = Null THEN S
           ELSE [S EXCEPT !.intervals = {i \in @ : i.h /= h},
                          !.heap[o].timerInterval = Null,
                          !.heap[o].timerRunning  = FALSE]

\* socket.join(roomId); socket.roomId = roomId
BindT(S, s, roomId) ==
  [S EXCEPT !.sockets[s].roomId = roomId, !.sockets[s].member = @ \cup {roomId}]

\* socket.on('join') of the timed server
onJoinT(S0, s, roomId, desiredTime) ==
  IF roomId = Null THEN Result(S0, <<Ev("error", {s}, [msg |-> "room required"])>>)
  ELSE IF ~HasRoom(S0, roomId) /\ FreeObjs(S0) = {}
  THEN Result([S0 EXCEPT !.ok = FALSE], << >>)
  ELSE
    LET S1 == IF HasRoom(S0, roomId) THEN S0
              ELSE LET n == Lowest(FreeObjs(S0))
                   IN  [S0 EXCEPT !.heap[n] = makeRoomT(SecsOf(desiredTime)),
                                  !.rooms[roomId] = n]
        o == S1.rooms[roomId]
        r == S1.heap[o]
    IN
    IF RoomFull(r) THEN Result(S1, <<Ev("error", {s}, [msg |-> "room full"])>>)
    ELSE
      LET color == SeatColor(r)
          S2 == [S1 EXCEPT !.heap[o].players =
                               [p \in DOMAIN @ \cup {s} |->
                                  IF p = s THEN [id |-> s, color |-> color] ELSE @[p]],
                           !.heap[o].order = Append(@, s),
                           !.ok = @ /\ Len(r.order) < MaxOrder]
          S3 == BindT(S2, s, roomId)
          two == NumPlayers(S3.heap[o]) = 2
          S4 == IF two THEN startTimers(S3, roomId) ELSE S3
          joined == Ev("joined", {s}, [color |-> color, fen |-> r.chess, timers |-> r.timers])
          second == IF two
                    THEN Ev("start", Members(S3, roomId),
                            [fen |-> r.chess, timers |-> r.timers, turn |-> TurnColor(r.chess)])
                    ELSE Ev("waiting", {s}, NoData)
      IN  Result(S4, <<joined, second,
                       Ev("player-joined", Members(S3, roomId) \ {s}, [color |-> color])>>)

\* socket.on('move') of the timed server
onMoveT(S0, s, payload) ==
  LET roomId == S0.sockets[s].roomId IN
  IF roomId = Null \/ ~HasRoom(S0, roomId) THEN Result(S0, << >>)
  ELSE IF s \notin DOMAIN RoomOf(S0, roomId).players
  THEN Result(S0, <<Ev("error", {s}, [msg |-> "player not found"])>>)
  ELSE
    LET o == S0.rooms[roomId]
        r == S0.heap[o]
        expected == TurnColor(r.chess)
    IN
    IF r.players[s].color /= expected
    THEN Result(S0, <<Ev("invalid", {s}, [msg |-> "not your turn"])>>)
    ELSE IF ~ChessLegal(r.chess, payload)
    THEN Result(S0, <<Ev("invalid", {s}, [msg |-> "illegal move"])>>)
    ELSE
      LET S1 == [S0 EXCEPT !.heap[o].chess = ChessMove(@, payload),
                           !.ok = @ /\ Len(r.chess) < MaxPly]
          S2 == stopTurnTimerUpdate(S1, roomId)
          after == S2.heap[o]
          moveEv == Ev("move", Members(S2, roomId),
                       [move |-> payload, fen |-> after.chess,
                        turn |-> TurnColor(after.chess), timers |-> after.timers])
      IN
      IF ~GameOver(after.chess) THEN Result(startTimers(S2, roomId), <<moveEv>>)
      ELSE IF FreeTimeoutIds(S2) = {} THEN Result([S2 EXCEPT !.ok = FALSE], << >>)
      ELSE Result([S2 EXCEPT !.timeouts = @ \cup
                      {[id |-> Lowest(FreeTimeoutIds(S2)), roomId |-> roomId,
                        due |-> S0.now + DeleteDelayMs]}],
                  <<moveEv, Ev("gameover", Members(S2, roomId), [fen |-> after.chess])>>)

\* socket.on('chat') of the timed server
onChatT(S0, s) ==
  LET roomId == S0.sockets[s].roomId IN
  IF roomId = Null \/ ~HasRoom(S0, roomId) THEN Result(S0, << >>)
  ELSE Result(S0, <<Ev("chat", Members(S0, roomId), NoData)>>)

\* socket.on('resign') of the timed server
onResignT(S0, s) ==
  LET roomId == S0.sockets[s].roomId IN
  IF \/ roomId = Null
     \/ ~HasRoom(S0, roomId)
     \/ s \notin DOMAIN RoomOf(S0, roomId).players
  THEN Result(S0, << >>)
  ELSE Result(clearRoomT(S0, roomId),
              <<Ev("resign", Members(S0, roomId),
                   [winner |-> Other(RoomOf(S0, roomId).players[s].color)])>>)

\* socket.on('offer_draw')
onOfferDraw(S0, s) ==
  LET roomId == S0.sockets[s].roomId IN
  IF roomId = Null THEN Result(S0, << >>)
  ELSE Result(S0, <<Ev("offer_draw", Members(S0, roomId) \ {s}, NoData)>>)

\* socket.on('accept_draw')
onAcceptDraw(S0, s) ==
  LET roomId == S0.sockets[s].roomId IN
  IF roomId = Null THEN Result(S0, << >>)
  ELSE Result(clearRoomT(S0, roomId), <<Ev("draw", Members(S0, roomId), NoData)>>)

\* socket.on('rematch') of the timed server
onRematchT(S0, s) ==
  LET roomId == S0.sockets[s].roomId IN
  IF roomId = Null \/ ~HasRoom(S0, roomId) THEN Result(S0, << >>)
  ELSE LET o  == S0.rooms[roomId]
           S1 == [S0 EXCEPT !.heap[o].chess = NewChess]
       IN  Result(startTimers(S1, roomId),
                  <<Ev("rematch", Members(S0, roomId),
                       [fen |-> NewChess, timers |-> S1.heap[o].timers])>>)

\* socket.on('disconnect') of the timed server
onDisconnectT(S0, s) ==
  LET roomId == S0.sockets[s].roomId
      Sc == [S0 EXCEPT !.sockets[s] = ClosedSocket]
  IN
  IF roomId = Null \/ ~HasRoom(S0, roomId) THEN Result(Sc, << >>)
  ELSE LET o  == S0.rooms[roomId]
           S1 == [Sc EXCEPT !.heap[o].players = [p \in DOMAIN @ \ {s} |-> @[p]],
                            !.heap[o].order = Without(@, s)]
           S2 == IF NumPlayers(S1.heap[o]) = 0 THEN clearRoomT(S1, roomId) ELSE S1
       IN  Result(S2, <<Ev("peer-left", Members(Sc, roomId), NoData)>>)

\* the setInterval callback installed by startTimers, for interval i
onTickT(S0, i) ==
  LET r == S0.heap[i.obj]
      currentTurn == TurnColor(r.chess)
      elapsed == (S0.now - r.turnStartTs) \div MsPerSec
      S1 == [S0 EXCEPT !.heap[i.obj].timers[currentTurn] = Max(0, @ - elapsed),
                       !.heap[i.obj].turnStartTs = S0.now]
      timers1 == S1.heap[i.obj].timers
      expired == timers1[currentTurn] <= 0
      \* clearInterval(r.timerInterval); clearRoom(roomId)
      S2 == IF expired
            THEN clearRoomT([S1 EXCEPT !.intervals = {j \in @ : j.h /= r.timerInterval}],
                            i.roomId)
            ELSE S1
      S3 == [S2 EXCEPT !.intervals =
               {IF j.h = i.h THEN [j EXCEPT !.due = S0.now + TickMs] ELSE j : j \in @}]
      timersEv == Ev("timers", Members(S0, i.roomId),
                     [timers |-> timers1, turn |-> currentTurn])
  IN  IF expired
      THEN Result(S3, <<timersEv, Ev("timeouts", Members(S0, i.roomId),
                                     [roomId |-> i.roomId, winner |-> Other(currentTurn)])>>)
      ELSE Result(S3, <<timersEv>>)

\* the setTimeout callback scheduled after 'gameover': rooms.delete(roomId)
onDeleteTimeout(S0, t) ==
  Result([S0 EXCEPT !.timeouts = @ \ {t}, !.rooms[t.roomId] = Null], << >>)

\* the timed server left alone until `target`, at most a chunk ahead: every
\* interval callback that is due before then runs when it is due
RECURSIVE runChunkT(_, _, _)
runChunkT(S, events, target) ==
  LET dueSet == {i \in S.intervals : i.due < target} IN
  IF dueSet = {} THEN Result([S EXCEPT !.now = target], events)
  ELSE LET i == CHOOSE x \in dueSet :
                  \A y \in dueSet : x.due < y.due \/ (x.due = y.due /\ x.h <= y.h)
           R == onTickT([S EXCEPT !.now = Max(S.now, i.due)], i)
       IN  runChunkT(R.srv, events \o R.out, target)

IdleChunk == 30         \* seconds of idle running evaluated at a time

Min(a, b) == IF a <= b THEN a ELSE b

\* the timed server left alone until `target`, chunk after chunk
RECURSIVE runTimersT(_, _, _)
runTimersT(S, events, target) ==
  LET R == runChunkT(S, events, Min(target, S.now + IdleChunk * MsPerSec)) IN
  IF R.srv.now >= target THEN R ELSE runTimersT(R.srv, R.out, target)

\* commit the server state a handler of the timed server returns
CommitT(R) ==
  LET S1 == CollectT(R.srv) IN
  /\ R.srv.ok
  /\ rooms' = S1.rooms
  /\ heap' = S1.heap
  /\ intervals' = S1.intervals
  /\ timeouts' = S1.timeouts
  /\ sockets' = S1.sockets
  /\ now' = S1.now
  /\ UNCHANGED <<nextPid, illegal, epochClock, away, timedOut>>

JoinT(s, roomId, desiredTime) ==
  CanJoin(s) /\ CommitT(onJoinT(Connected(Server, s), s, roomId, desiredTime))

MoveT(s, payload) == Open(s) /\ CommitT(onMoveT(Server, s, payload))

ChatT(s) == Open(s) /\ CommitT(onChatT(Server, s))

ResignT(s) == Open(s) /\ CommitT(onResignT(Server, s))

OfferDraw(s) == Open(s) /\ CommitT(onOfferDraw(Server, s))

AcceptDraw(s) == Open(s) /\ CommitT(onAcceptDraw(Server, s))

RematchT(s) == Open(s) /\ CommitT(onRematchT(Server, s))

DisconnectT(s) == Open(s) /\ CommitT(onDisconnectT(Server, s))

TickT(i) == i \in intervals /\ now >= i.due /\ CommitT(onTickT(Server, i))

DeleteTimeout(t) == t \in timeouts /\ now >= t.due /\ CommitT(onDeleteTimeout(Server, t))

\* once the clients have gone quiet, the timed server runs on its own until
\* the scheduled deletion is due
IdleT ==
  /\ now + Quantum > MaxTime
  /\ timeouts /= {}
  /\ now < NextTimeout(Server)
  /\ CommitT(runTimersT(Server, << >>, NextTimeout(Server)))

\* the desiredTime values sent to the timed server: games of 1 or 2 seconds
\* per side, and none where desiredTime is not read
JoinTimesT(r) ==
  IF r = Null \/ rooms[r] /= Null THEN {[kind |-> "undefined"]}
  ELSE {[kind |-> "number", val |-> 1], [kind |-> "number", val |-> 2]}

NextT ==
  \/ \E s \in SocketIds, r \in RoomIds \cup {Null} :
       \E d \in JoinTimesT(r) : JoinT(s, r, d)
  \/ \E s \in SocketIds, m \in MovePayloads : MoveT(s, m)
  \/ \E s \in SocketIds : ChatT(s)
  \/ \E s \in SocketIds : ResignT(s)
  \/ \E s \in SocketIds : OfferDraw(s)
  \/ \E s \in SocketIds : AcceptDraw(s)
  \/ \E s \in SocketIds : RematchT(s)
  \/ \E s \in SocketIds : DisconnectT(s)
  \/ \E i \in intervals : TickT(i)
  \/ \E t \in timeouts : DeleteTimeout(t)
  \/ Advance
  \/ IdleT

SpecT == Init /\ [][NextT]_vars

\* the step is the callback of interval i of the timed server
TickTStep(i) == now' = now /\ sockets' = sockets /\ TickT(i)

\* C22 (timed server without player ids): an interval callback only ever runs
\* for the room that is registered under its room id: once clearRoom has taken
\* a room out of the registry its interval does not fire again, so it emits
\* nothing to that room id and deletes no room created later under the id
\* (stated for the callbacks whose events reach two connections).
C22_RemovalCancelsTicks ==
  [][\A i \in intervals :
       (TickTStep(i) /\ Cardinality(Members(Server, i.roomId)) >= 2)
       => rooms[i.roomId] = i.obj]_vars

\* C24 (timed server without player ids): the seats present in a room of the
\* registry never have the same color.
C24_SeatColorsDistinctT ==
  \A r \in RoomIds : rooms[r] /= Null =>
    \A p, q \in DOMAIN heap[rooms[r]].players :
      p /= q => heap[rooms[r]].players[p].color /= heap[rooms[r]].players[q].color

\* the room objects that exist before and after the step
Lasting == {o \in ObjIds : Present(o) /\ heap'[o] /= NoObj}

\* the clock of the color that is not to move is what it was
WaitingClockFrozen ==
  \A o \in Lasting :
    heap'[o].timers[Other(TurnColor(heap[o].chess))] =
      heap[o].timers[Other(TurnColor(heap[o].chess))]

\* C23: no step of the server, a rematch included, increases a clock of a
\* room, and a tick or a move command leaves the clock of the color that is
\* not to move as it was.
C23_ClocksMonotone ==
  [][/\ \A o \in Lasting, c \in Colors : heap'[o].timers[c] <= heap[o].timers[c]
     /\ \A s \in SocketIds, m \in MovePayloads : MoveStep(s, m) => WaitingClockFrozen
     /\ \A i \in intervals : TickStep(i) => WaitingClockFrozen]_vars

\* C23 for rooms whose clocks are not below 0
C23_MonotoneFromZeroUp ==
  [][ClocksSane =>
       /\ \A o \in Lasting, c \in Colors : heap'[o].timers[c] <= heap[o].timers[c]
       /\ \A s \in SocketIds, m \in MovePayloads : MoveStep(s, m) => WaitingClockFrozen
       /\ \A i \in intervals : TickStep(i) => WaitingClockFrozen]_vars

\* C25: a rematch command addressed to a room of the registry resets the
\* position to the initial one, white to move and no move in the history;
\* leaves exactly one tick source active for the room, the one whose handle
\* the room holds; leaves the seats, the bindings of the connections and both
\* clocks as they were; and reports that position and those clocks.
C25_RematchEffect ==
  [][\A s \in SocketIds :
       (RematchStep(s) /\ RoomObjOf(s) /= Null) =>
         LET o == RoomObjOf(s)
             R == onRematch(Server, s)
         IN  /\ heap'[o] /= NoObj
             /\ heap'[o].chess = NewChess
             /\ TurnColor(heap'[o].chess) = "white"
             /\ heap'[o].players = heap[o].players
             /\ heap'[o].order = heap[o].order
             /\ heap'[o].timers = heap[o].timers
             /\ sockets' = sockets
             /\ rooms' = rooms
             /\ Cardinality({i \in intervals' : i.obj = o}) = 1
             /\ Cardinality({i \in intervals' : i.roomId = sockets[s].roomId}) = 1
             /\ \A i \in intervals' : i.obj = o => heap'[o].timerInterval = i.h
             /\ Len(R.out) = 1
             /\ R.out[1].ev = "rematch"
             /\ R.out[1].data = [fen |-> NewChess, timers |-> heap[o].timers]]_vars

\* the game of the first two seats ended by a mating move, and a rematch has
\* put the initial position back on the board of their room
C25_Witness ==
  \E r \in RoomIds :
    /\ rooms[r] /= Null
    /\ nextPid = 3
    /\ NumPlayers(heap[rooms[r]]) = 2
    /\ heap[rooms[r]].chess = NewChess
    /\ \E t \in timeouts : t.roomId = r
    /\ \E i \in intervals : i.obj = rooms[r]

\* the room registered under r is a new instance: it waits for its second
\* seat and no game has been started in it (no join of a second seat, no move
\* and no rematch has set turnStartTs), so that a removal pending for r was
\* scheduled by the game of an earlier room
FreshInstance(r) ==
  /\ rooms[r] /= Null
  /\ NumPlayers(heap[rooms[r]]) = 1
  /\ heap[rooms[r]].chess = NewChess
  /\ heap[rooms[r]].turnStartTs = Null

\* C26: the removal scheduled when a game ended leaves alone a room that was
\* created under the same id after the room of that game had gone: when the
\* callback runs, the new room stays in the registry as it is (stated for a
\* new room that waits for its second seat, after a game of two seats).
C26_RemovalHitsOwnRoomOnly ==
  [][\A t \in timeouts :
       (ClearTimeoutStep(t) /\ FreshInstance(t.roomId) /\ nextPid = 4)
       => /\ rooms'[t.roomId] = rooms[t.roomId]
          /\ heap'[rooms[t.roomId]] = heap[rooms[t.roomId]]]_vars

\* the game on the board of room object o has ended by a move: the handler of
\* that move emitted 'gameover', and no rematch has followed
GameEnded(o) == Present(o) /\ GameOver(heap[o].chess)

\* C27: each game of two seats has at most one terminal event.  Once
\* 'gameover' has been emitted for the game on the board, neither a resign
\* command emits 'resign' nor a tick emits 'timeouts' for that game; ('resign'
\* and 'timeouts' remove the room at once, so nothing can follow them).
C27_OneTerminalEvent ==
  [][/\ \A s \in SocketIds :
          (/\ ResignStep(s)
           /\ PlayerOf(s) /= Null
           /\ NumPlayers(heap[RoomObjOf(s)]) = 2
           /\ GameEnded(RoomObjOf(s)))
          => ~Emits(onResign(Server, s).out, "resign")
     /\ \A i \in intervals :
          (TickStep(i) /\ NumPlayers(heap[i.obj]) = 2 /\ GameEnded(i.obj))
          => ~Emits(onTick(Server, i).out, "timeouts")]_vars

\* C28: a room that has not had a second seat (seats are never deleted, so a
\* room with fewer than two seats) has no active tick source.
C28_NoClockBeforeSecondSeat ==
  \A o \in ObjIds :
    (Present(o) /\ NumPlayers(heap[o]) < 2) =>
      /\ heap[o].timerInterval = Null
      /\ \A i \in intervals : i.obj /= o

\* C29: no two seats of a room are bound to the same connection.
C29_OneSeatPerConnection ==
  \A o \in ObjIds : Present(o) =>
    \A p, q \in DOMAIN heap[o].players :
      (p /= q /\ heap[o].players[p].socketId /= Null)
      => heap[o].players[p].socketId /= heap[o].players[q].socketId

\* C30: a seat of a room of the registry is flagged connected only while the
\* connection it is bound to is open and bound to that room; so a room of the
\* registry has a seat with a live connection.
C30_ConnectedMeansLive ==
  \A r \in RoomIds : rooms[r] /= Null =>
    LET ps == heap[rooms[r]].players IN
    /\ \A p \in DOMAIN ps :
         ps[p].connected =>
           /\ ps[p].socketId /= Null
           /\ sockets[ps[p].socketId].status = "open"
           /\ sockets[ps[p].socketId].roomId = r
    /\ (ps /= << >>) =>
         \E p \in DOMAIN ps :
           ps[p].socketId /= Null /\ sockets[ps[p].socketId].status = "open"

(***************************************************************************)
(* The reconnect-capable server in runs without end.  The clients stay     *)
(* active for ever, and time is kept relative so that the state space is   *)
(* finite: the reading of the wall clock stays at LiveNow, and when time   *)
(* passes every timestamp the server has stored (the due times of the      *)
(* timers and turnStartTs) moves back instead.  Time passes in steps of    *)
(* half a tick period, so that a command can arrive between two ticks.     *)
(* Games are of 1 second per side: no stored timestamp is then older than  *)
(* one tick period.  No game ends on the board in these runs, so no        *)
(* removal is ever scheduled by setTimeout.                                *)
(***************************************************************************)
LiveStep == TickMs \div 2

LiveNow == T0 + TickMs

InitLive ==
  /\ now = LiveNow
  /\ rooms = [r \in RoomIds |-> Null]
  /\ heap = [o \in ObjIds |-> NoObj]
  /\ intervals = {}
  /\ timeouts = {}
  /\ sockets = [s \in SocketIds |-> NewSocket]
  /\ nextPid = 1
  /\ illegal = 0
  /\ epochClock = [o \in ObjIds |-> NoSnap]
  /\ away = [p \in Pids |-> NoSnap]
  /\ timedOut = {}

\* half a second passes; a timer callback runs as soon as it is due
LiveAdvance ==
  /\ NothingDue(now + LiveStep)
  /\ intervals' = {[i EXCEPT !.due = @ - LiveStep] : i \in intervals}
  /\ timeouts' = {[t EXCEPT !.due = @ - LiveStep] : t \in timeouts}
  /\ heap' = [o \in ObjIds |->
                IF heap[o] = NoObj \/ heap[o].turnStartTs = Null THEN heap[o]
                ELSE [heap[o] EXCEPT !.turnStartTs = @ - LiveStep]]
  /\ away' = [p \in Pids |-> IF away[p] = Back THEN NoSnap ELSE away[p]]
  /\ UNCHANGED <<now, rooms, sockets, nextPid, illegal, epochClock, timedOut>>

\* the desiredTime values sent in these runs: 1 second per side, and none
\* where desiredTime is not read
JoinTimesLive(r) ==
  IF r = Null \/ rooms[r] /= Null THEN {[kind |-> "undefined"]}
  ELSE {[kind |-> "number", val |-> 1]}

\* the moves sent in these runs
LivePayloads == {"quiet", "bad"}

TickDue == \E i \in intervals : Tick(i)

NextLive ==
  \/ \E s \in SocketIds, r \in RoomIds \cup {Null} :
       \E d \in JoinTimesLive(r), p \in JoinPids(r) : Join(s, r, d, p)
  \/ \E s \in SocketIds, m \in LivePayloads : Move(s, m)
  \/ \E s \in SocketIds : Chat(s)
  \/ \E s \in SocketIds : Resign(s)
  \/ \E s \in SocketIds : Rematch(s)
  \/ \E s \in SocketIds : Disconnect(s)
  \/ TickDue
  \/ LiveAdvance

\* time passes, and Node runs a timer callback that is due
SpecLive ==
  /\ InitLive
  /\ [][NextLive]_vars
  /\ WF_vars(LiveAdvance)
  /\ WF_vars(TickDue)

\* every timestamp the server has stored is a timestamp (none has moved back
\* to the value that stands for null)
StampsPositive ==
  /\ \A o \in ObjIds : Present(o) => (heap[o].turnStartTs = Null \/ heap[o].turnStartTs > 0)
  /\ \A i \in intervals : i.due > 0
  /\ \A t \in timeouts : t.due > 0

\* room id r has a room whose tick source has been started
Ticking(r) == rooms[r] /= Null /\ \E i \in intervals : i.obj = rooms[r]

\* C31: with time passing and due timer callbacks running, every room whose
\* tick source has been started is eventually removed from the registry,
\* whatever the clients send.
C31_StartedRoomEventuallyRemoved ==
  \A r \in RoomIds : Ticking(r) ~> (rooms[r] = Null)
====
